---------------------------- MODULE Spec2Model ----------------------------
(***************************************************************************)
(* A model of src/src/App.jsx: the React component that loads the first   *)
(* sheet of a workbook as a grid, turns it into headers and row objects,  *)
(* derives the role/team/region filter options, filters, sorts and        *)
(* renders the rows, and decodes the "Birthday" column's date serials.    *)
(*                                                                         *)
(* JavaScript strings are modelled as sequences of one-character strings, *)
(* JavaScript values as records [t, n, s] (typeof, number, text).         *)
(***************************************************************************)
EXTENDS Integers, Sequences, FiniteSets, TLC

(***************************************************************************)
(* Bounds of the model.                                                    *)
(***************************************************************************)
MaxRows == 2
MaxFilterRows == 2
MaxSortRows == 4
MaxSerial == 62

(***************************************************************************)
(* Text: the printable ASCII characters in code-point order.  CharCode is *)
(* the UTF-16 code unit, which is what JavaScript's < on strings and the  *)
(* default Array.prototype.sort compare.  The double quote, the backslash *)
(* and the backtick hold their places under a name; no text of the model  *)
(* uses them.                                                              *)
(***************************************************************************)
Chars ==
  << " ", "!", "dquote", "#", "$", "%", "&", "'", "(", ")", "*", "+", ",", "-", ".", "/",
     "0", "1", "2", "3", "4", "5", "6", "7", "8", "9", ":", ";", "<", "=", ">", "?",
     "@", "A", "B", "C", "D", "E", "F", "G", "H", "I", "J", "K", "L", "M", "N", "O",
     "P", "Q", "R", "S", "T", "U", "V", "W", "X", "Y", "Z", "[", "backslash", "]", "^", "_",
     "backtick", "a", "b", "c", "d", "e", "f", "g", "h", "i", "j", "k", "l", "m", "n", "o",
     "p", "q", "r", "s", "t", "u", "v", "w", "x", "y", "z", "{", "|", "}", "~" >>

CharCode == [c \in {Chars[i] : i \in 1..Len(Chars)} |->
               31 + (CHOOSE i \in 1..Len(Chars) : Chars[i] = c)]

Digits == <<"0", "1", "2", "3", "4", "5", "6", "7", "8", "9">>

DigitValue(c) == CharCode[c] - CharCode["0"]

IsDigit(c) == CharCode[c] >= CharCode["0"] /\ CharCode[c] <= CharCode["9"]

\* String.prototype.toLowerCase on ASCII text.
LowerChar(c) ==
  IF CharCode[c] >= CharCode["A"] /\ CharCode[c] <= CharCode["Z"]
  THEN Chars[CharCode[c] + 32 - 31]
  ELSE c

toLowerCase(s) == [i \in 1..Len(s) |-> LowerChar(s[i])]

\* String.prototype.includes: sub occurs in s as a contiguous substring.
includes(s, sub) ==
  \E i \in 0..(Len(s) - Len(sub)) : SubSeq(s, i + 1, i + Len(sub)) = sub

\* String.prototype.trim (the only white space of the alphabet is " ").
RECURSIVE trimStart(_)
trimStart(s) == IF s # <<>> /\ Head(s) = " " THEN trimStart(Tail(s)) ELSE s

RECURSIVE trimEnd(_)
trimEnd(s) ==
  IF s # <<>> /\ s[Len(s)] = " " THEN trimEnd(SubSeq(s, 1, Len(s) - 1)) ELSE s

trim(s) == trimEnd(trimStart(s))

\* a < b on two strings: lexicographic order of the code units.
RECURSIVE StrLess(_, _)
StrLess(a, b) ==
  IF b = <<>> THEN FALSE
  ELSE IF a = <<>> THEN TRUE
  ELSE IF Head(a) # Head(b) THEN CharCode[Head(a)] < CharCode[Head(b)]
  ELSE StrLess(Tail(a), Tail(b))

\* The decimal text of a natural number (Number.prototype.toString).
RECURSIVE NatToStr(_)
NatToStr(n) ==
  IF n < 10 THEN <<Digits[n + 1]>>
  ELSE Append(NatToStr(n \div 10), Digits[(n % 10) + 1])

RECURSIVE StrToNat(_)
StrToNat(s) ==
  IF s = <<>> THEN 0
  ELSE 10 * StrToNat(SubSeq(s, 1, Len(s) - 1)) + DigitValue(s[Len(s)])

(***************************************************************************)
(* JavaScript values: strings, non-negative whole numbers, undefined.     *)
(***************************************************************************)
Str(s) == [t |-> "string", n |-> 0, s |-> s]
Num(n) == [t |-> "number", n |-> n, s |-> <<>>]
Undefined == [t |-> "undefined", n |-> 0, s |-> <<>>]
EmptyStr == Str(<<>>)

\* ToBoolean: undefined, 0 and the empty string are falsy.
Truthy(v) ==
  CASE v.t = "string" -> v.s # <<>>
    [] v.t = "number" -> v.n # 0
    [] OTHER -> FALSE

\* a || b
OrElse(a, b) == IF Truthy(a) THEN a ELSE b

\* String(v)
String(v) ==
  CASE v.t = "string" -> v.s
    [] v.t = "number" -> NatToStr(v.n)
    [] OTHER -> <<"u", "n", "d", "e", "f", "i", "n", "e", "d">>

\* Number(v): [nan, n].  A string converts when, trimmed, it is empty (0)
\* or an unsigned decimal integer; the model's texts hold no sign, point,
\* exponent or radix prefix, so every other text is NaN.
ToNumber(v) ==
  CASE v.t = "number" -> [nan |-> FALSE, n |-> v.n]
    [] v.t = "string" ->
         LET s == trim(v.s)
         IN IF \A i \in 1..Len(s) : IsDigit(s[i])
            THEN [nan |-> FALSE, n |-> StrToNat(s)]
            ELSE [nan |-> TRUE, n |-> 0]
    [] OTHER -> [nan |-> TRUE, n |-> 0]

isNaN(v) == ToNumber(v).nan

\* a === b
StrictEquals(a, b) == a = b

\* a < b (the abstract relational comparison): two strings compare by code
\* units, anything else numerically, and a NaN operand makes it false.
Less(a, b) ==
  IF a.t = "string" /\ b.t = "string" THEN StrLess(a.s, b.s)
  ELSE /\ ~ToNumber(a).nan
       /\ ~ToNumber(b).nan
       /\ ToNumber(a).n < ToNumber(b).n

Range(f) == {f[i] : i \in DOMAIN f}


(***************************************************************************)
(* Array.prototype.sort, as V8 runs it on an array of fewer than 64       *)
(* elements: one run is counted at the front (a strictly descending one   *)
(* is reversed) and the rest is inserted by binary insertion.  The        *)
(* comparator cmp is data, [kind |-> "default"] or [kind |-> "rows", hdrs,*)
(* col, asc], and Compare(cmp, a, b) is its result: -1, 0 or 1.  When the *)
(* comparator is not a consistent order the result is engine-defined;     *)
(* this is the engine of Chrome and Node.                                 *)
(***************************************************************************)
\* The default comparator of Array.prototype.sort: by String(x), code units.
DefaultCompare(a, b) ==
  IF StrLess(String(a), String(b)) THEN -1
  ELSE IF StrLess(String(b), String(a)) THEN 1
  ELSE 0

\* array[i] of a JavaScript array (0-based): undefined beyond its length.
At(array, i) == IF i + 1 \in DOMAIN array THEN array[i + 1] ELSE Undefined

\* object[key]: undefined when the object has no such property.
Get(object, key) == IF key \in DOMAIN object THEN object[key] ELSE Undefined

\* The comparator of sortedData for the sort state (col, asc).
CompareRows(hdrs, col, asc, a, b) ==
  IF col < 0 THEN 0
  ELSE LET key == At(hdrs, col)
           ra == Get(a, key)
           rb == Get(b, key)
           numeric == ~isNaN(ra) /\ ~isNaN(rb)
           va == IF numeric THEN Num(ToNumber(ra).n) ELSE ra
           vb == IF numeric THEN Num(ToNumber(rb).n) ELSE rb
       IN IF Less(va, vb) THEN (IF asc THEN -1 ELSE 1)
          ELSE IF Less(vb, va) THEN (IF asc THEN 1 ELSE -1)
          ELSE 0

Compare(cmp, a, b) ==
  IF cmp.kind = "default" THEN DefaultCompare(a, b)
  ELSE CompareRows(cmp.hdrs, cmp.col, cmp.asc, a, b)

Reverse(s) == [i \in 1..Len(s) |-> s[Len(s) + 1 - i]]

\* The length of the run that starts work[1], work[2]: the index idx is the
\* next element to look at.
RECURSIVE RunLength(_, _, _, _)
RunLength(work, cmp, isDescending, idx) ==
  IF idx > Len(work) THEN idx - 1
  ELSE LET order == Compare(cmp, work[idx], work[idx - 1])
       IN IF (isDescending /\ order >= 0) \/ (~isDescending /\ order < 0)
          THEN idx - 1
          ELSE RunLength(work, cmp, isDescending, idx + 1)

\* CountAndMakeRun: [work, runLength].
CountAndMakeRun(work, cmp) ==
  LET isDescending == Compare(cmp, work[2], work[1]) < 0
      runLength == RunLength(work, cmp, isDescending, 3)
  IN [work |-> IF isDescending
               THEN Reverse(SubSeq(work, 1, runLength))
                      \o SubSeq(work, runLength + 1, Len(work))
               ELSE work,
      runLength |-> runLength]

\* The binary search of BinaryInsertionSort: where pivot goes in
\* work[left..right-1] (0-based bounds, as in the engine).
RECURSIVE InsertionPoint(_, _, _, _, _)
InsertionPoint(work, cmp, pivot, left, right) ==
  IF left >= right THEN left
  ELSE LET mid == left + ((right - left) \div 2)
       IN IF Compare(cmp, pivot, work[mid + 1]) < 0
          THEN InsertionPoint(work, cmp, pivot, left, mid)
          ELSE InsertionPoint(work, cmp, pivot, mid + 1, right)

\* BinaryInsertionSort from the 0-based index start on.
RECURSIVE BinaryInsertionSort(_, _, _)
BinaryInsertionSort(work, cmp, start) ==
  IF start >= Len(work) THEN work
  ELSE LET pivot == work[start + 1]
           left == InsertionPoint(work, cmp, pivot, 0, start)
           moved == SubSeq(work, 1, left) \o <<pivot>>
                      \o SubSeq(work, left + 1, start)
                      \o SubSeq(work, start + 2, Len(work))
       IN BinaryInsertionSort(moved, cmp, start + 1)

ArraySort(arr, cmp) ==
  IF Len(arr) < 2 THEN arr
  ELSE LET run == CountAndMakeRun(arr, cmp)
       IN BinaryInsertionSort(run.work, cmp, run.runLength)

(***************************************************************************)
(* The component's state (useState) and its environment.                  *)
(***************************************************************************)
VARIABLES
  json,          \* the grid XLSX.utils.sheet_to_json(sheet, {header: 1}) gives
  responseOk,    \* response.ok of the fetch
  tzOffset,      \* the host's local offset from UTC, minutes east
  allData, headers, search, roleFilter, teamFilter, regionFilter,
  sortCol, sortAsc, error, loading

vars == <<json, responseOk, tzOffset, allData, headers, search, roleFilter,
          teamFilter, regionFilter, sortCol, sortAsc, error, loading>>

NoError == "null"

\* Object.values(object), as a set.
ObjectValues(object) == {object[k] : k \in DOMAIN object}

\* Array.prototype.find on the headers, then || ''.
RECURSIVE FindKey(_, _)
FindKey(hdrs, target) ==
  IF hdrs = <<>> THEN <<>>
  ELSE IF includes(toLowerCase(Head(hdrs)), target) THEN Head(hdrs)
  ELSE FindKey(Tail(hdrs), target)

roleKey == FindKey(headers, <<"r", "o", "l", "e">>)
teamKey == FindKey(headers, <<"t", "e", "a", "m">>)
regionKey == FindKey(headers, <<"r", "e", "g", "i", "o", "n">>)

(***************************************************************************)
(* loadExcelFile: the grid becomes headers and row objects.               *)
(***************************************************************************)
\* json[0].map(h => String(h || '').trim())
MakeHeaders(first) ==
  [i \in 1..Len(first) |-> trim(String(OrElse(first[i], EmptyStr)))]

\* hdrs.forEach((h, i) => obj[h] = row[i] || ''): a later header of the
\* same label overwrites the earlier one's property.
MakeRow(hdrs, row) ==
  [h \in Range(hdrs) |->
     LET last == CHOOSE i \in DOMAIN hdrs :
                   hdrs[i] = h /\ \A j \in DOMAIN hdrs : hdrs[j] = h => j <= i
     IN OrElse(At(row, last - 1), EmptyStr)]

\* Object.values(row).some(v => v !== '')
RowHasValue(row) == \E v \in ObjectValues(row) : ~StrictEquals(v, EmptyStr)

MakeRows(hdrs, grid) ==
  LET objs == [i \in 1..(Len(grid) - 1) |-> MakeRow(hdrs, grid[i + 1])]
  IN SelectSeq(objs, RowHasValue)

\* A variant without the json.length > 0 guard: json[0] of an empty grid is
\* undefined, the map on it throws and the catch block records the error.
LoadExcelFile_NoGuard ==
  /\ loading
  /\ IF ~responseOk
     THEN /\ error' = "Could not load file"
          /\ UNCHANGED <<headers, allData>>
     ELSE IF Len(json) > 0
     THEN /\ headers' = MakeHeaders(json[1])
          /\ allData' = MakeRows(MakeHeaders(json[1]), json)
          /\ UNCHANGED error
     ELSE /\ error' = "Cannot read properties of undefined"
          /\ UNCHANGED <<headers, allData>>
  /\ loading' = FALSE
  /\ UNCHANGED <<json, responseOk, tzOffset, search, roleFilter, teamFilter,
                 regionFilter, sortCol, sortAsc>>

LoadExcelFile ==
  /\ loading
  /\ IF ~responseOk
     THEN /\ error' = "Could not load file"
          /\ UNCHANGED <<headers, allData>>
     ELSE IF Len(json) > 0
     THEN /\ headers' = MakeHeaders(json[1])
          /\ allData' = MakeRows(MakeHeaders(json[1]), json)
          /\ UNCHANGED error
     ELSE UNCHANGED <<headers, allData, error>>
  /\ loading' = FALSE
  /\ UNCHANGED <<json, responseOk, tzOffset, search, roleFilter, teamFilter,
                 regionFilter, sortCol, sortAsc>>

(***************************************************************************)
(* The values derived on every render.                                    *)
(***************************************************************************)
\* [...new Set(array)]: the distinct values in order of first occurrence.
RECURSIVE Distinct(_)
Distinct(array) ==
  IF array = <<>> THEN <<>>
  ELSE LET front == Distinct(SubSeq(array, 1, Len(array) - 1))
           x == array[Len(array)]
       IN IF x \in Range(front) THEN front ELSE Append(front, x)

\* [...new Set(allData.map(d => d[key]).filter(Boolean))].sort()
FacetOptions(data, key) ==
  ArraySort(Distinct(SelectSeq([i \in 1..Len(data) |-> Get(data[i], key)], Truthy)),
            [kind |-> "default"])

roles == FacetOptions(allData, roleKey)
teams == FacetOptions(allData, teamKey)
regions == FacetOptions(allData, regionKey)

matchSearch(row) ==
  \/ search = <<>>
  \/ \E v \in ObjectValues(row) :
       includes(toLowerCase(String(v)), toLowerCase(search))

\* A variant without the !filter test: an empty selection is compared too.
matchFacet_AlwaysCompares(row, key, filter) ==
  StrictEquals(Get(row, key), Str(filter))

\* !filter || row[key] === filter
matchFacet(row, key, filter) ==
  filter = <<>> \/ StrictEquals(Get(row, key), Str(filter))

matchRow(row) ==
  /\ matchSearch(row)
  /\ matchFacet(row, roleKey, roleFilter)
  /\ matchFacet(row, teamKey, teamFilter)
  /\ matchFacet(row, regionKey, regionFilter)

filteredData == SelectSeq(allData, matchRow)

\* [...rows].sort(comparator)
SortRows(rows, hdrs, col, asc) ==
  ArraySort(rows, [kind |-> "rows", hdrs |-> hdrs, col |-> col, asc |-> asc])

sortedData == SortRows(filteredData, headers, sortCol, sortAsc)

(***************************************************************************)
(* The handlers.                                                           *)
(***************************************************************************)
\* A variant that forgets setSortAsc(true) when the column changes.
handleSort_KeepsDirection(colIndex) ==
  /\ ~loading
  /\ error = NoError
  /\ IF sortCol = colIndex
     THEN /\ sortAsc' = ~sortAsc
          /\ UNCHANGED sortCol
     ELSE /\ sortCol' = colIndex
          /\ UNCHANGED sortAsc
  /\ UNCHANGED <<json, responseOk, tzOffset, allData, headers, search,
                 roleFilter, teamFilter, regionFilter, loading, error>>

handleSort(colIndex) ==
  /\ ~loading
  /\ error = NoError
  /\ IF sortCol = colIndex
     THEN /\ sortAsc' = ~sortAsc
          /\ UNCHANGED sortCol
     ELSE /\ sortCol' = colIndex
          /\ sortAsc' = TRUE
  /\ UNCHANGED <<json, responseOk, tzOffset, allData, headers, search,
                 roleFilter, teamFilter, regionFilter, loading, error>>


\* The values a <select> offers: '' and every option, as text.
OptionValues(options) == {<<>>} \cup {String(options[i]) : i \in DOMAIN options}

setSearch(value) ==
  /\ ~loading
  /\ error = NoError
  /\ search' = value
  /\ UNCHANGED <<json, responseOk, tzOffset, allData, headers, roleFilter,
                 teamFilter, regionFilter, sortCol, sortAsc, loading, error>>

setRoleFilter(value) ==
  /\ ~loading
  /\ error = NoError
  /\ value \in OptionValues(roles)
  /\ roleFilter' = value
  /\ UNCHANGED <<json, responseOk, tzOffset, allData, headers, search,
                 teamFilter, regionFilter, sortCol, sortAsc, loading, error>>

setTeamFilter(value) ==
  /\ ~loading
  /\ error = NoError
  /\ value \in OptionValues(teams)
  /\ teamFilter' = value
  /\ UNCHANGED <<json, responseOk, tzOffset, allData, headers, search,
                 roleFilter, regionFilter, sortCol, sortAsc, loading, error>>

setRegionFilter(value) ==
  /\ ~loading
  /\ error = NoError
  /\ value \in OptionValues(regions)
  /\ regionFilter' = value
  /\ UNCHANGED <<json, responseOk, tzOffset, allData, headers, search,
                 roleFilter, teamFilter, sortCol, sortAsc, loading, error>>

(***************************************************************************)
(* parseGoogleSheetsDate.  Times are counted in minutes since             *)
(* 1970-01-01T00:00Z (the code's milliseconds divided by 60000).          *)
(***************************************************************************)
MinutesPerDay == 1440

\* The day number (days since 1970-01-01) of a proleptic Gregorian date.
DaysFromCivil(year, month, day) ==
  LET y == IF month <= 2 THEN year - 1 ELSE year
      era == y \div 400
      yoe == y - era * 400
      mp == IF month > 2 THEN month - 3 ELSE month + 9
      doy == ((153 * mp + 2) \div 5) + day - 1
      doe == yoe * 365 + (yoe \div 4) - (yoe \div 100) + doy
  IN era * 146097 + doe - 719468

\* The proleptic Gregorian date of a day number: [year, month, day].
CivilFromDays(days) ==
  LET z == days + 719468
      era == z \div 146097
      doe == z - era * 146097
      yoe == (doe - (doe \div 1460) + (doe \div 36524) - (doe \div 146096)) \div 365
      doy == doe - (365 * yoe + (yoe \div 4) - (yoe \div 100))
      mp == (5 * doy + 2) \div 153
      month == IF mp < 10 THEN mp + 3 ELSE mp - 9
  IN [year |-> yoe + era * 400 + (IF month <= 2 THEN 1 ELSE 0),
      month |-> month,
      day |-> doy - ((153 * mp + 2) \div 5) + 1]

RECURSIVE PadStart(_, _)
PadStart(s, width) == IF Len(s) >= width THEN s ELSE PadStart(<<"0">> \o s, width)

\* YYYY-MM-DD
FormatDate(date) ==
  PadStart(NatToStr(date.year), 4) \o <<"-">> \o PadStart(NatToStr(date.month), 2)
    \o <<"-">> \o PadStart(NatToStr(date.day), 2)

\* new Date(1899, 11, 30).getTime(): midnight of that day in local time.
LocalEpoch(offset) == DaysFromCivil(1899, 12, 30) * MinutesPerDay - offset

\* date.toISOString().split('T')[0]: the UTC calendar date of a time.
toISODate(time) == FormatDate(CivilFromDays(time \div MinutesPerDay))

\* What a call that throws RangeError: Invalid time value yields.
RangeError == <<"RangeError">>

parseGoogleSheetsDate(serialNumber, offset) ==
  IF ~Truthy(serialNumber) THEN <<>>
  ELSE IF isNaN(serialNumber) THEN RangeError
  ELSE toISODate(LocalEpoch(offset) + ToNumber(serialNumber).n * MinutesPerDay)

Birthday == <<"B", "i", "r", "t", "h", "d", "a", "y">>

\* The text of the Birthday cell of a rendered row.
BirthdayCell(row) == parseGoogleSheetsDate(OrElse(Get(row, Birthday), EmptyStr), tzOffset)

(***************************************************************************)
(* Initial states: the state after useState, before the effect has run.   *)
(* Either the fetch fails (and no grid is read), or the sheet is empty,   *)
(* or it is a grid of the family the specification is about.              *)
(***************************************************************************)
UseState ==
  /\ allData = <<>>
  /\ headers = <<>>
  /\ search = <<>>
  /\ roleFilter = <<>>
  /\ teamFilter = <<>>
  /\ regionFilter = <<>>
  /\ sortCol = -1
  /\ sortAsc = TRUE
  /\ error = NoError
  /\ loading = TRUE

FetchFails == responseOk = FALSE /\ json = <<>>

EmptySheet == responseOk = TRUE /\ json = <<>>

\* The sequences over S of a length in lo..hi.
SeqsOf(S, lo, hi) == UNION {[1..n -> S] : n \in lo..hi}

\* The sheet is a header row of headerRows and at most maxRows data rows
\* over cells, each of at least Len(header) - fewer and at most
\* Len(header) + more cells.
SheetOver(headerRows, cells, fewer, more, maxRows) ==
  /\ responseOk = TRUE
  /\ \E h \in headerRows : \E n \in 0..maxRows :
       \E rows \in [1..n -> SeqsOf(cells, Len(h) - fewer, Len(h) + more)] :
         json = <<h>> \o rows

Letters == <<"a", "b", "c", "d", "e", "f">>

(***************************************************************************)
(* Ingestion: header rows with distinct, duplicate (after trimming) and   *)
(* numeric labels; rows shorter and longer than the header row.           *)
(***************************************************************************)
IngestHeaderRows ==
  { <<Str(<<"A">>)>>,
    <<Str(<<"A">>), Str(<<"B">>)>>,
    <<Str(<<"A">>), Str(<<" ", "A">>)>>,
    <<Num(0), Num(7)>> }

IngestCells == { Str(<<>>), Str(<<"x">>), Num(0) }

InitIngest ==
  /\ FetchFails \/ EmptySheet \/ SheetOver(IngestHeaderRows, IngestCells, 2, 1, MaxRows)
  /\ tzOffset = 0
  /\ UseState

NextIngest == LoadExcelFile

SpecIngest == InitIngest /\ [][NextIngest]_vars

(***************************************************************************)
(* Filtering: header rows that resolve one, two or none of the facets,    *)
(* with an empty label, a label to trim and fold, and a repeated label.   *)
(***************************************************************************)
FilterHeaderRows ==
  { <<Str(<<"N", "a", "m", "e">>), Str(<<"R", "o", "l", "e">>)>>,
    <<Str(<<"R", "o", "l", "e">>), Str(<<"T", "e", "a", "m">>)>>,
    <<Str(<<"N", "a", "m", "e">>), Str(<<>>)>>,
    <<Str(<<" ", "R", "O", "L", "E">>), Str(<<"R", "e", "g", "i", "o", "n">>)>>,
    <<Str(<<"R", "o", "l", "e">>), Str(<<"R", "o", "l", "e">>)>> }

FilterCells == { Str(<<>>), Str(<<"T", "o", "p">>), Num(7) }

SearchTexts == { <<>>, <<"T", "O">>, <<"7">> }

InitFilter ==
  /\ FetchFails \/ EmptySheet \/ SheetOver(FilterHeaderRows, FilterCells, 0, 0, MaxFilterRows)
  /\ tzOffset = 0
  /\ UseState

NextFilter ==
  \/ LoadExcelFile
  \/ \E value \in SearchTexts : setSearch(value)
  \/ \E value \in OptionValues(roles) : setRoleFilter(value)
  \/ \E value \in OptionValues(teams) : setTeamFilter(value)
  \/ \E value \in OptionValues(regions) : setRegionFilter(value)

SpecFilter == InitFilter /\ [][NextFilter]_vars

(***************************************************************************)
(* Sorting: sheets of a Name column, which tells the rows apart, and a    *)
(* Score column of numeric text, other text, numbers and empty cells.     *)
(***************************************************************************)
SortCells ==
  { Str(<<"1", "0">>), Str(<<"9">>), Str(<<"2">>), Str(<<"1", "a">>),
    Str(<<>>), Num(5), Num(10) }

Name == <<"N", "a", "m", "e">>
Score == <<"S", "c", "o", "r", "e">>

SortSheet ==
  /\ responseOk = TRUE
  /\ \E n \in 0..MaxSortRows : \E cells \in [1..n -> SortCells] :
       json = <<<<Str(Name), Str(Score)>>>>
                \o [i \in 1..n |-> <<Str(<<Letters[i]>>), cells[i]>>]

InitSort ==
  /\ FetchFails \/ EmptySheet \/ SortSheet
  /\ tzOffset = 0
  /\ UseState

NextSort ==
  \/ LoadExcelFile
  \/ \E colIndex \in 0..(Len(headers) - 1) : handleSort(colIndex)

SpecSort == InitSort /\ [][NextSort]_vars

(***************************************************************************)
(* Dates: a Birthday column holding a serial, on hosts west of, at and    *)
(* east of UTC.                                                            *)
(***************************************************************************)
DateCells ==
  {Num(n) : n \in 0..MaxSerial}
    \cup { Num(44927), Str(<<"4", "4", "9", "2", "7">>), Str(<<>>) }

DateSheet ==
  /\ responseOk = TRUE
  /\ \E cell \in DateCells :
       json = << <<Str(Name), Str(Birthday)>>, <<Str(<<"a">>), cell>> >>

TimezoneOffsets == { -300, 0, 60, 330 }

InitDate ==
  /\ FetchFails \/ EmptySheet \/ DateSheet
  /\ tzOffset \in TimezoneOffsets
  /\ UseState

NextDate ==
  \/ LoadExcelFile
  \/ \E colIndex \in 0..(Len(headers) - 1) : handleSort(colIndex)

SpecDate == InitDate /\ [][NextDate]_vars

(***************************************************************************)
(* The properties.                                                         *)
(***************************************************************************)
\* The table is on screen: loading is over and no error is shown.
Rendered == ~loading /\ error = NoError

\* Some header contains the facet's target, case folded.
FacetResolved(target) ==
  \E i \in DOMAIN headers : includes(toLowerCase(headers[i]), target)

RoleTarget == <<"r", "o", "l", "e">>
TeamTarget == <<"t", "e", "a", "m">>
RegionTarget == <<"r", "e", "g", "i", "o", "n">>

QueryAllows(row) ==
  \/ search = <<>>
  \/ \E v \in ObjectValues(row) : includes(toLowerCase(String(v)), toLowerCase(search))

\* A facet constrains a row only when it is resolved and has a selection.
FacetAllows(row, target, key, selection) ==
  (FacetResolved(target) /\ selection # <<>>) => Get(row, key) = Str(selection)

\* C1: a row is in the filter result if and only if the query is empty or
\* some value of the row contains it case-insensitively, and every facet
\* that is resolved and has a selection finds its value in the row; an
\* absent facet imposes no constraint whatever its selection is.
C1_FilterMembership ==
  Rendered =>
    \A i \in DOMAIN allData :
      (allData[i] \in Range(filteredData)) <=>
        /\ QueryAllows(allData[i])
        /\ FacetAllows(allData[i], RoleTarget, roleKey, roleFilter)
        /\ FacetAllows(allData[i], TeamTarget, teamKey, teamFilter)
        /\ FacetAllows(allData[i], RegionTarget, regionKey, regionFilter)

\* A data row has, under the header columns, a value that is non-empty as
\* given: a missing trailing cell is empty text, a cell beyond the header
\* row is ignored.
NonEmptyAsGiven(row) ==
  \E j \in 1..Len(json[1]) : j <= Len(row) /\ row[j] # EmptyStr

\* C2: a data row appears in the ingested rows if and only if one of its
\* values under the header columns is non-empty as given, and the kept
\* rows appear in their source order.
C2_KeptRows ==
  (~loading /\ responseOk /\ json # <<>>) =>
    LET kept == SelectSeq(Tail(json), NonEmptyAsGiven)
    IN allData = [k \in 1..Len(kept) |-> MakeRow(headers, kept[k])]

TextOrder(a, b) == IF StrLess(a, b) THEN -1 ELSE IF StrLess(b, a) THEN 1 ELSE 0

NumberOrder(m, n) == IF m < n THEN -1 ELSE IF m > n THEN 1 ELSE 0

\* Numeric when both values parse as numbers, else the code-point order of
\* their literal text: a tie only between equal texts.
ClaimedOrder(va, vb) ==
  IF ~isNaN(va) /\ ~isNaN(vb)
  THEN NumberOrder(ToNumber(va).n, ToNumber(vb).n)
  ELSE TextOrder(String(va), String(vb))

ScoresOf(rows) == [i \in 1..Len(rows) |-> Get(rows[i], Score)]

\* C3: with a sort column active, two rows compare numerically when both
\* values parse as numbers and as text in code-point order otherwise, never
\* as a tie unless the texts are equal; "10", "9", "2" sorts ascending to
\* "2", "9", "10".
C3_Comparison ==
  (Rendered /\ sortCol >= 0) =>
    /\ \A a, b \in Range(filteredData) :
         CompareRows(headers, sortCol, TRUE, a, b)
           = ClaimedOrder(Get(a, At(headers, sortCol)), Get(b, At(headers, sortCol)))
    /\ ( /\ ScoresOf(filteredData) = <<Str(<<"1", "0">>), Str(<<"9">>), Str(<<"2">>)>>
         /\ At(headers, sortCol) = Score
         /\ sortAsc )
       => ScoresOf(sortedData) = <<Str(<<"2">>), Str(<<"9">>), Str(<<"1", "0">>)>>

\* The date that is n days after 1899-12-30.
SerialDate(n) == FormatDate(CivilFromDays(DaysFromCivil(1899, 12, 30) + n))

\* C4: the decoder gives empty text for a falsy serial and, for a positive
\* whole serial, the date that many days after 1899-12-30, whatever the
\* host's timezone offset: 1 is 1899-12-31 and 44927 is 2023-01-01.
C4_DecodeDate ==
  Rendered =>
    \A i \in DOMAIN sortedData :
      LET val == OrElse(Get(sortedData[i], Birthday), EmptyStr)
          cell == BirthdayCell(sortedData[i])
      IN /\ ~Truthy(val) => cell = <<>>
         /\ (val.t = "number" /\ val.n > 0) => cell = SerialDate(val.n)
         /\ val = Num(1) => cell = <<"1", "8", "9", "9", "-", "1", "2", "-", "3", "1">>
         /\ val = Num(44927) => cell = <<"2", "0", "2", "3", "-", "0", "1", "-", "0", "1">>

\* The sheet was read and had no rows at all, and loading is over.
EmptyGridLoaded == responseOk /\ json = <<>> /\ ~loading

ColumnValues(key) == {Get(allData[i], key) : i \in DOMAIN allData} \ {EmptyStr, Undefined}

IsAscending(options) ==
  \A i, j \in DOMAIN options :
    i < j => ~StrLess(String(options[j]), String(options[i]))

NoRepeats(options) ==
  \A i, j \in DOMAIN options : i # j => options[i] # options[j]

OptionsAsClaimed(target, key, options) ==
  IF FacetResolved(target)
  THEN /\ Range(options) = ColumnValues(key)
       /\ NoRepeats(options)
       /\ IsAscending(options)
  ELSE options = <<>>

\* C6: a facet whose target no header contains has an empty option list,
\* also when the header row holds empty labels; a resolved facet's options
\* are the distinct non-empty values of its column in ascending order.
C6_FacetOptions ==
  Rendered =>
    /\ OptionsAsClaimed(RoleTarget, roleKey, roles)
    /\ OptionsAsClaimed(TeamTarget, teamKey, teams)
    /\ OptionsAsClaimed(RegionTarget, regionKey, regions)

\* C7: sorting ascending and then sorting the result descending on the same
\* column gives what one descending sort of the original rows gives.
C7_DoubleSort ==
  (Rendered /\ sortCol >= 0) =>
    SortRows(SortRows(filteredData, headers, sortCol, TRUE), headers, sortCol, FALSE)
      = SortRows(filteredData, headers, sortCol, FALSE)

Position(rows, row) == CHOOSE i \in DOMAIN rows : rows[i] = row

\* C8: rows with equal values at the sort column keep their relative order,
\* and with the unsorted sentinel the output is the input.
C8_StableSort ==
  Rendered =>
    /\ sortCol < 0 => sortedData = filteredData
    /\ sortCol >= 0 =>
         \A i, j \in DOMAIN filteredData :
           ( /\ i < j
             /\ Get(filteredData[i], At(headers, sortCol))
                  = Get(filteredData[j], At(headers, sortCol)) )
           => Position(sortedData, filteredData[i]) < Position(sortedData, filteredData[j])

\* C9: a click on another column than the active one makes it the sort
\* column, ascending; a click on the active column keeps the column and
\* flips the direction; no click brings the unsorted sentinel back.
C9_HeaderClick ==
  [][\A colIndex \in 0..(Len(headers) - 1) :
       handleSort(colIndex) =>
         /\ sortCol' = colIndex
         /\ sortCol' # -1
         /\ sortAsc' = (IF sortCol = colIndex THEN ~sortAsc ELSE TRUE)]_vars

C9_Witness == Rendered /\ sortCol = 1 /\ ~sortAsc /\ Len(allData) > 1

RECURSIVE IsSubsequence(_, _)
IsSubsequence(a, b) ==
  \/ a = <<>>
  \/ /\ b # <<>>
     /\ IF Head(a) = Head(b) THEN IsSubsequence(Tail(a), Tail(b))
        ELSE IsSubsequence(a, Tail(b))

\* C10: the filter result is a subsequence of the rows in the same order,
\* and with an empty query and no selection it is all the rows.
C10_FilterSubsequence ==
  /\ IsSubsequence(filteredData, allData)
  /\ (search = <<>> /\ roleFilter = <<>> /\ teamFilter = <<>> /\ regionFilter = <<>>)
       => filteredData = allData

C10_Witness ==
  /\ Rendered
  /\ search # <<>>
  /\ roleFilter # <<>>
  /\ Len(filteredData) > 0
  /\ Len(filteredData) < Len(allData)

=============================================================================
